---- MODULE Spec2Model ----
(***************************************************************************)
(* A model of the graph data model (structures.py), of the two Dijkstra    *)
(* variants (dijkstra.py) and of the graph constructors that feed them     *)
(* (graph_io.read_adjacency_list, structures.matrix_to_graph).             *)
(*                                                                         *)
(* Node objects are the integers of Objects; an Edge object is its index   *)
(* in the store `edge` (construction order).  math.inf is the number Inf,  *)
(* larger than every finite path length of the model, with a saturating    *)
(* addition.                                                               *)
(*                                                                         *)
(* Spec:       read_adjacency_list builds a graph edge by edge (or has     *)
(*             read one of the scenario files), then the two algorithms    *)
(*             are called on it any number of times, from any start node,  *)
(*             each call finding the lengths the call before it left.      *)
(* SpecEdges:  Edge objects are constructed in any order.                  *)
(* SpecMatrix: matrix_to_graph builds the graph, the algorithms run on     *)
(*             it, and Graph.to_matrix turns it back into a matrix.        *)
(*                                                                         *)
(* SpecOps:    on the graph of a scenario, the algorithms and the methods  *)
(*             of OpsTracker are called in any order, the totals adding up *)
(*             from one call to the next until reset() is called.          *)
(*                                                                         *)
(* A call is modelled in steps: the code up to the main loop, then one     *)
(* iteration of the loop of simple_shortest_path, or one pop and one       *)
(* scanned edge of heap_shortest_path, at a time.  `rerun`, `calls`,       *)
(* `iterations`, `pushes` and `pops` are history variables: they record    *)
(* what was called and how often the loops and the queue were used.        *)
(*                                                                         *)
(* OpsTracker.heap_ops is a real number, a sum of integers and of          *)
(* logarithms log2(n): it is the record [units, log2of] that stands for    *)
(* units + log2(log2of) with log2of odd, so that equal totals are equal    *)
(* records.                                                                *)
(***************************************************************************)
EXTENDS Integers, Sequences, FiniteSets, TLC

VARIABLES
    nodes,      \* graph.nodes: sequence of Node objects
    gedges,     \* graph.edges: sequence of Edge objects
    edge,       \* every constructed Edge object: [tail, head, weight]
    outbound,   \* Node.outbound of every Node object
    inbound,    \* Node.inbound of every Node object
    data,       \* Node.data of every Node object
    length,     \* Node.length of every Node object
    visited,    \* local `visited` of the running algorithm
    heap,       \* local `heap` of heap_shortest_path
    cur,        \* local `current` of heap_shortest_path
    idx,        \* position of the for loop over current.outbound
    pc,         \* where the program is
    variant,    \* the algorithm called last
    start,      \* the start argument of the last call
    outcome,    \* how the last call ended
    rerun,      \* whether the last call found the lengths an earlier run had left
    matrix,     \* the argument of matrix_to_graph
    outMatrix,  \* the value returned by Graph.to_matrix
    simple_ops, \* OpsTracker.simple_ops
    heap_ops,   \* OpsTracker.heap_ops
    calls,      \* the calls made since the last OpsTracker.reset(): the
                \* function or method, its argument, whether it raised at once
    iterations, \* iterations of the while loop begun by the last call
    pushes,     \* heappush calls of the last call
    pops        \* heappop calls of the last call

vars == << nodes, gedges, edge, outbound, inbound, data, length, visited,
           heap, cur, idx, pc, variant, start, outcome, rerun, matrix,
           outMatrix, simple_ops, heap_ops, calls, iterations, pushes, pops >>

structure == << nodes, gedges, edge, outbound, inbound, data >>

\* OpsTracker and what is recorded of the calls
tracking == << simple_ops, heap_ops, calls, iterations, pushes, pops >>

---------------------------------------------------------------------------
(* Bounds and input domains *)

\* the most edges of an adjacency-list file, and Edge objects constructed
MaxEdges == 3

\* the most rows of a matrix
MaxDim == 2

\* the most calls made between two calls of OpsTracker.reset()
MaxCalls == 2

\* math.inf
Inf == 1000

\* the Node objects that graphs are made of
NodeIds == {1, 2, 3, 4}

\* the nodes of the adjacency-list files read
FileNodes == {1, 2, 3}

\* a Node object that is in no graph and has no edges
Outsider == Cardinality(NodeIds) + 1

Objects == NodeIds \cup {Outsider}

\* the edge weights of the adjacency-list files and matrices read
Weights == {0, 1}

\* Python's None, where a node or an edge is expected
None == 0

\* the arguments add_heap_op is called with from outside the algorithms
HeapSizes == {0, 1, 2, 3}

---------------------------------------------------------------------------
(* structures.py *)

\* float addition with math.inf
Plus(a, b) == IF a = Inf \/ b = Inf THEN Inf ELSE a + b

\* Node.__eq__: nodes compare equal when their lengths are equal
NodeEq(len, a, b) == len[a] = len[b]

\* Node.__lt__
NodeLt(len, a, b) == len[a] < len[b]

\* Node.__init__: a node with no edges and length math.inf
NewNodes == [ outbound |-> [n \in Objects |-> << >>],
              inbound  |-> [n \in Objects |-> << >>],
              data     |-> [n \in Objects |-> n],
              length   |-> [n \in Objects |-> Inf] ]

\* Node.add_outbound
add_outbound(out, n, e) == [out EXCEPT ![n] = Append(@, e)]

\* Node.add_inbound
add_inbound(inb, n, e) == [inb EXCEPT ![n] = Append(@, e)]

\* Edge.__init__ with the two registrations swapped
EdgeInit_Swapped(g, t, h, w) ==
    LET e == Len(g.edge) + 1
    IN  [ edge     |-> Append(g.edge, [tail |-> t, head |-> h, weight |-> w]),
          outbound |-> add_outbound(g.outbound, h, e),
          inbound  |-> add_inbound(g.inbound, t, e) ]

\* Edge.__init__ on the objects g = [edge, outbound, inbound]: the new Edge
\* object registers itself with its tail and with its head
EdgeInit(g, t, h, w) ==
    LET e == Len(g.edge) + 1
    IN  [ edge     |-> Append(g.edge, [tail |-> t, head |-> h, weight |-> w]),
          outbound |-> add_outbound(g.outbound, t, e),
          inbound  |-> add_inbound(g.inbound, h, e) ]

\* list membership by identity: id(x) in (id(y) for y in seq)
InById(x, seq) == \E i \in 1..Len(seq) : seq[i] = x

\* Python's `x in seq` on a list of nodes: identity first, then Node.__eq__
InList(len, x, seq) == \E i \in 1..Len(seq) : seq[i] = x \/ NodeEq(len, seq[i], x)

\* Python's seq.index(x): the first position holding x or a node equal to x
ListIndex(len, seq, x) ==
    CHOOSE i \in 1..Len(seq) :
        /\ seq[i] = x \/ NodeEq(len, seq[i], x)
        /\ \A j \in 1..(i - 1) : ~(seq[j] = x \/ NodeEq(len, seq[j], x))

\* Graph.to_matrix, the loop over self.edges from position k on
RECURSIVE FillMatrix(_, _)
FillMatrix(m, k) ==
    IF k > Len(gedges) THEN m
    ELSE LET e   == edge[gedges[k]]
             row == ListIndex(length, nodes, e.tail)
             col == ListIndex(length, nodes, e.head)
         IN  FillMatrix([m EXCEPT ![row][col] = e.weight], k + 1)

\* Graph.to_matrix
to_matrix ==
    LET n == Len(nodes)
    IN  FillMatrix([r \in 1..n |-> [c \in 1..n |-> Inf]], 1)

\* matrix_to_graph: the check that the matrix is square
IsSquare(m) == \A r \in 1..Len(m) : Len(m[r]) = Len(m)

\* matrix_to_graph: the cells in row-major order that hold an edge
RECURSIVE MatrixCells(_, _)
MatrixCells(m, k) ==
    LET n == Len(m) IN
    IF k >= n * n THEN << >>
    ELSE LET row == (k \div n) + 1
             col == (k % n) + 1
         IN  IF m[row][col] # Inf
             THEN << [tail |-> row, head |-> col, weight |-> m[row][col]] >>
                      \o MatrixCells(m, k + 1)
             ELSE MatrixCells(m, k + 1)

\* matrix_to_graph: the loop `edges.append(Edge(nodes[row], nodes[col], ...))`
RECURSIVE BuildEdges(_, _, _)
BuildEdges(g, cells, k) ==
    IF k > Len(cells) THEN g
    ELSE BuildEdges(EdgeInit(g, cells[k].tail, cells[k].head, cells[k].weight),
                    cells, k + 1)

---------------------------------------------------------------------------
(* heapq, as called by heap_shortest_path; positions are 0-based as in    *)
(* the library, h[p + 1] is the entry at position p                       *)

RECURSIVE siftdown(_, _, _, _, _)
siftdown(len, h, startpos, pos, newitem) ==
    IF pos > startpos
    THEN LET parentpos == (pos - 1) \div 2
             parent    == h[parentpos + 1]
         IN  IF NodeLt(len, newitem, parent)
             THEN siftdown(len, [h EXCEPT ![pos + 1] = parent], startpos,
                           parentpos, newitem)
             ELSE [h EXCEPT ![pos + 1] = newitem]
    ELSE [h EXCEPT ![pos + 1] = newitem]

\* the loop of _siftup that bubbles the smaller child up to a leaf
RECURSIVE siftup_loop(_, _, _)
siftup_loop(len, h, pos) ==
    LET endpos   == Len(h)
        leftpos  == 2 * pos + 1
        rightpos == leftpos + 1
        childpos == IF rightpos < endpos
                       /\ ~NodeLt(len, h[leftpos + 1], h[rightpos + 1])
                    THEN rightpos ELSE leftpos
    IN  IF leftpos < endpos
        THEN siftup_loop(len, [h EXCEPT ![pos + 1] = h[childpos + 1]], childpos)
        ELSE [heap |-> h, pos |-> pos]

siftup(len, h, pos) ==
    LET newitem == h[pos + 1]
        r       == siftup_loop(len, h, pos)
    IN  siftdown(len, r.heap, pos, r.pos, newitem)

heappush(len, h, item) == siftdown(len, Append(h, item), 0, Len(h), item)

\* heappop on a non-empty heap: the item returned and the heap left
heappop(len, h) ==
    LET lastelt == h[Len(h)]
        rest    == SubSeq(h, 1, Len(h) - 1)
    IN  IF Len(rest) > 0
        THEN [item |-> rest[1],
              heap |-> siftup(len, [rest EXCEPT ![1] = lastelt], 0)]
        ELSE [item |-> lastelt, heap |-> rest]

---------------------------------------------------------------------------
(* dijkstra.py, OpsTracker *)

\* Python's max
max(a, b) == IF a >= b THEN a ELSE b

\* the real number 0
NoOps == [units |-> 0, log2of |-> 1]

\* the real number x.units + log2(x.log2of), written with x.log2of odd
RECURSIVE Real(_)
Real(x) ==
    IF x.log2of % 2 = 0
    THEN Real([units |-> x.units + 1, log2of |-> x.log2of \div 2])
    ELSE x

\* OpsTracker.reset
reset == [simple_ops |-> 0, heap_ops |-> NoOps]

\* OpsTracker.incr_simple
incr_simple(total, amount) == total + amount

\* OpsTracker.incr_heap
incr_heap(total, amount) == [total EXCEPT !.units = @ + amount]

\* add_heap_op taking a heap of no element for a heap of one
add_heap_op_Clamped(total, heap_size) ==
    [ raised   |-> FALSE,
      heap_ops |-> Real([units  |-> total.units + 1,
                         log2of |-> total.log2of * max(heap_size, 1)]) ]

\* OpsTracker.add_heap_op: math.log2 raises ValueError unless heap_size > 0,
\* and then nothing is added
add_heap_op(total, heap_size) ==
    IF heap_size <= 0
    THEN [ raised |-> TRUE, heap_ops |-> total ]
    ELSE [ raised   |-> FALSE,
           heap_ops |-> Real([units  |-> total.units + 1,
                              log2of |-> total.log2of * heap_size]) ]

---------------------------------------------------------------------------
(* dijkstra.py.  A run is the record of what the call can read and write: *)
(* the graph it was passed (g, or the field graph), the node lengths, the *)
(* totals of OpsTracker, its locals, and where it is.                     *)

\* an initialisation that sets the start node only
InitLengths_StartOnly(g, len, s) == [len EXCEPT ![s] = 0]

\* "Set starting weight to 0 and all others to infinity"
InitLengths(g, len, s) ==
    [n \in Objects |->
        IF n = s THEN 0 ELSE IF InById(n, g.nodes) THEN Inf ELSE len[n]]

\* the operations counted by the loop `for node in graph.nodes`
LoopOps(g, s) ==
    Len(g.nodes) + Cardinality({i \in 1..Len(g.nodes) : g.nodes[i] # s})

\* the edges get_best_edge scans: the outbound edges of vis[k..], in order
RECURSIVE ScanOrder(_, _, _)
ScanOrder(g, vis, k) ==
    IF k > Len(vis) THEN << >>
    ELSE g.outbound[vis[k]] \o ScanOrder(g, vis, k + 1)

\* get_best_edge with the weight of the edge alone as its criterion
RECURSIVE BestFrom_WeightOnly(_, _, _, _, _, _)
BestFrom_WeightOnly(g, len, vis, scan, k, best) ==
    IF k > Len(scan) THEN best
    ELSE LET e         == g.edge[scan[k]]
             criterion == e.weight
         IN  IF InById(e.head, vis)
             THEN BestFrom_WeightOnly(g, len, vis, scan, k + 1, best)
             ELSE IF criterion < best.criterion
             THEN BestFrom_WeightOnly(g, len, vis, scan, k + 1,
                                      [edge |-> scan[k], criterion |-> criterion,
                                       ops |-> best.ops + 4])
             ELSE BestFrom_WeightOnly(g, len, vis, scan, k + 1,
                                      [best EXCEPT !.ops = @ + 2])

\* get_best_edge keeping the last of the edges of least criterion
RECURSIVE BestFrom_LastWins(_, _, _, _, _, _)
BestFrom_LastWins(g, len, vis, scan, k, best) ==
    IF k > Len(scan) THEN best
    ELSE LET e         == g.edge[scan[k]]
             criterion == Plus(len[e.tail], e.weight)
         IN  IF InById(e.head, vis)
             THEN BestFrom_LastWins(g, len, vis, scan, k + 1, best)
             ELSE IF criterion <= best.criterion /\ criterion < Inf
             THEN BestFrom_LastWins(g, len, vis, scan, k + 1,
                                    [edge |-> scan[k], criterion |-> criterion,
                                     ops |-> best.ops + 4])
             ELSE BestFrom_LastWins(g, len, vis, scan, k + 1,
                                    [best EXCEPT !.ops = @ + 2])

\* get_best_edge, the body of the loops from edge k of the scan on; best.ops
\* is what incr_simple has been given
RECURSIVE BestFrom(_, _, _, _, _, _)
BestFrom(g, len, vis, scan, k, best) ==
    IF k > Len(scan) THEN best
    ELSE LET e         == g.edge[scan[k]]
             criterion == Plus(len[e.tail], e.weight)
         IN  IF InById(e.head, vis)
             THEN BestFrom(g, len, vis, scan, k + 1, best)
             ELSE IF criterion < best.criterion
             THEN BestFrom(g, len, vis, scan, k + 1,
                           [edge |-> scan[k], criterion |-> criterion,
                            ops |-> best.ops + 4])
             ELSE BestFrom(g, len, vis, scan, k + 1, [best EXCEPT !.ops = @ + 2])

get_best_edge(g, len, vis) ==
    BestFrom(g, len, vis, ScanOrder(g, vis, 1), 1,
             [edge |-> None, criterion |-> Inf, ops |-> 2 + Len(vis)])

\* simple_shortest_path with a check that start is a node of the graph
SimpleCallStep_Checked(g, len, s, t) ==
    [ graph |-> g,
      length |-> IF InById(s, g.nodes) THEN InitLengths(g, len, s) ELSE len,
      visited |-> << s >>, heap |-> << >>, cur |-> None, idx |-> 0,
      pc |-> IF InById(s, g.nodes) THEN "simple_loop" ELSE "idle",
      outcome |-> IF InById(s, g.nodes) THEN "running" ELSE "ValueError",
      simple_ops |-> incr_simple(t.simple_ops, 2 + LoopOps(g, s)),
      heap_ops |-> t.heap_ops, iterations |-> 0, pushes |-> 0, pops |-> 0 ]

\* simple_shortest_path charging its first two operations to the heap total
SimpleCallStep_HeapCharged(g, len, s, t) ==
    [ graph |-> g,
      length |-> InitLengths(g, len, s), visited |-> << s >>, heap |-> << >>,
      cur |-> None, idx |-> 0, pc |-> "simple_loop", outcome |-> "running",
      simple_ops |-> incr_simple(t.simple_ops, LoopOps(g, s)),
      heap_ops |-> incr_heap(t.heap_ops, 2),
      iterations |-> 0, pushes |-> 0, pops |-> 0 ]

\* simple_shortest_path up to its while loop, OpsTracker holding the totals t
SimpleCallStep(g, len, s, t) ==
    [ graph |-> g,
      length |-> InitLengths(g, len, s), visited |-> << s >>, heap |-> << >>,
      cur |-> None, idx |-> 0, pc |-> "simple_loop", outcome |-> "running",
      simple_ops |-> incr_simple(t.simple_ops, 2 + LoopOps(g, s)),
      heap_ops |-> t.heap_ops, iterations |-> 0, pushes |-> 0, pops |-> 0 ]

\* the while loop setting the length of the head without visiting it
SimpleIterStep_NoAppend(r) ==
    LET b == get_best_edge(r.graph, r.length, r.visited)
        h == r.graph.edge[b.edge].head
    IN  IF b.edge = None
        THEN [r EXCEPT !.pc = "idle", !.outcome = "returned",
                       !.iterations = @ + 1,
                       !.simple_ops = incr_simple(@, b.ops + 1)]
        ELSE [r EXCEPT !.length = [@ EXCEPT ![h] = b.criterion],
                       !.iterations = @ + 1,
                       !.simple_ops = incr_simple(@, b.ops + 3)]

\* one iteration of `while True` in simple_shortest_path
SimpleIterStep(r) ==
    LET b == get_best_edge(r.graph, r.length, r.visited)
        h == r.graph.edge[b.edge].head
    IN  IF b.edge = None
        THEN [r EXCEPT !.pc = "idle", !.outcome = "returned",
                       !.iterations = @ + 1,
                       !.simple_ops = incr_simple(@, b.ops + 1)]
        ELSE [r EXCEPT !.visited = Append(@, h),
                       !.length = [@ EXCEPT ![h] = b.criterion],
                       !.iterations = @ + 1,
                       !.simple_ops = incr_simple(@, b.ops + 3)]

\* heap_shortest_path relying on the lengths it finds
HeapCallStep_NoReset(g, len, s, t) ==
    [ graph |-> g,
      length |-> [len EXCEPT ![s] = 0], visited |-> << >>, heap |-> << s >>,
      cur |-> None, idx |-> 0, pc |-> "heap_loop", outcome |-> "running",
      simple_ops |-> t.simple_ops,
      heap_ops |-> incr_heap(t.heap_ops, 3 + LoopOps(g, s)),
      iterations |-> 0, pushes |-> 0, pops |-> 0 ]

\* heap_shortest_path up to its while loop, OpsTracker holding the totals t
HeapCallStep(g, len, s, t) ==
    [ graph |-> g,
      length |-> InitLengths(g, len, s), visited |-> << >>, heap |-> << s >>,
      cur |-> None, idx |-> 0, pc |-> "heap_loop", outcome |-> "running",
      simple_ops |-> t.simple_ops,
      heap_ops |-> incr_heap(t.heap_ops, 3 + LoopOps(g, s)),
      iterations |-> 0, pushes |-> 0, pops |-> 0 ]

\* the while loop without the test of `current` against visited
HeapPopStep_NoSkip(r) ==
    IF Len(r.heap) = 0
    THEN [r EXCEPT !.pc = "idle", !.outcome = "returned"]
    ELSE LET a == add_heap_op(r.heap_ops, Len(r.heap))
             p == heappop(r.length, r.heap)
         IN  IF a.raised
             THEN [r EXCEPT !.pc = "idle", !.outcome = "ValueError"]
             ELSE [r EXCEPT !.heap = p.heap, !.cur = p.item,
                            !.iterations = @ + 1, !.pops = @ + 1,
                            !.heap_ops = incr_heap(a.heap_ops, 2),
                            !.visited = Append(@, p.item), !.idx = 1,
                            !.pc = IF Len(r.graph.outbound[p.item]) = 0
                                   THEN "heap_loop" ELSE "heap_scan"]

\* `while len(heap) > 0` down to the for loop: pop, skip or visit
HeapPopStep(r) ==
    IF Len(r.heap) = 0
    THEN [r EXCEPT !.pc = "idle", !.outcome = "returned"]
    ELSE LET a == add_heap_op(r.heap_ops, Len(r.heap))
             p == heappop(r.length, r.heap)
         IN  IF a.raised
             THEN [r EXCEPT !.pc = "idle", !.outcome = "ValueError"]
             ELSE IF InById(p.item, r.visited)
             THEN [r EXCEPT !.heap = p.heap, !.cur = p.item,
                            !.iterations = @ + 1, !.pops = @ + 1,
                            !.heap_ops = incr_heap(a.heap_ops, 1)]
             ELSE [r EXCEPT !.heap = p.heap, !.cur = p.item,
                            !.iterations = @ + 1, !.pops = @ + 1,
                            !.heap_ops = incr_heap(a.heap_ops, 2),
                            !.visited = Append(@, p.item), !.idx = 1,
                            !.pc = IF Len(r.graph.outbound[p.item]) = 0
                                   THEN "heap_loop" ELSE "heap_scan"]

\* a relaxation without the comparison
Relax_Always(len, head, criterion) == [len EXCEPT ![head] = criterion]

\* the relaxation of `criterion < edge.head.length`
Relax(len, head, criterion) ==
    IF criterion < len[head] THEN [len EXCEPT ![head] = criterion] ELSE len

\* the push of `if edge.head not in visited`
PushHead(r, head) ==
    IF InList(r.length, head, r.visited) THEN r
    ELSE LET a == add_heap_op(r.heap_ops, max(1, Len(r.heap)))
         IN  IF a.raised
             THEN [r EXCEPT !.pc = "idle", !.outcome = "ValueError"]
             ELSE [r EXCEPT !.heap_ops = a.heap_ops,
                            !.heap = heappush(r.length, r.heap, head),
                            !.pushes = @ + 1]

\* the for loop written as a loop that takes the edges off current.outbound
HeapScanStep_Consuming(r) ==
    LET e         == r.graph.edge[r.graph.outbound[r.cur][1]]
        criterion == Plus(r.length[r.cur], e.weight)
        relaxed   == [r EXCEPT !.length = Relax(@, e.head, criterion),
                               !.heap_ops = incr_heap(@,
                                   IF criterion < r.length[e.head] THEN 4 ELSE 3)]
        pushed    == PushHead(relaxed, e.head)
    IN  IF pushed.outcome = "ValueError" THEN pushed
        ELSE [pushed EXCEPT !.graph.outbound[r.cur] = Tail(@),
                            !.pc = IF Len(r.graph.outbound[r.cur]) = 1
                                   THEN "heap_loop" ELSE "heap_scan"]

\* one iteration of `for edge in current.outbound`
HeapScanStep(r) ==
    LET e         == r.graph.edge[r.graph.outbound[r.cur][r.idx]]
        criterion == Plus(r.length[r.cur], e.weight)
        relaxed   == [r EXCEPT !.length = Relax(@, e.head, criterion),
                               !.heap_ops = incr_heap(@,
                                   IF criterion < r.length[e.head] THEN 4 ELSE 3)]
        pushed    == PushHead(relaxed, e.head)
    IN  IF pushed.outcome = "ValueError" THEN pushed
        ELSE [pushed EXCEPT !.idx = @ + 1,
                            !.pc = IF r.idx = Len(r.graph.outbound[r.cur])
                                   THEN "heap_loop" ELSE "heap_scan"]

\* the next step of a run
StepOf(r) ==
    CASE r.pc = "simple_loop" -> SimpleIterStep(r)
      [] r.pc = "heap_loop"   -> HeapPopStep(r)
      [] r.pc = "heap_scan"   -> HeapScanStep(r)
      [] OTHER                -> r

\* a run carried on until it returns
RECURSIVE Finish(_)
Finish(r) == IF r.pc = "idle" THEN r ELSE Finish(StepOf(r))

---------------------------------------------------------------------------
(* The program: a graph is built, then the algorithms are called on it    *)

NodeSeq == [i \in 1..Cardinality(FileNodes) |-> i]

\* the graphs of the specification's scenarios A and D, as read_adjacency_list
\* returns them
ScenarioA == [ nodes |-> << 1, 2, 3 >>,
               edges |-> << [tail |-> 1, head |-> 2, weight |-> 1],
                            [tail |-> 1, head |-> 3, weight |-> 3],
                            [tail |-> 2, head |-> 3, weight |-> 1] >> ]

ScenarioD == [ nodes |-> << 1, 2, 3, 4 >>,
               edges |-> << [tail |-> 1, head |-> 2, weight |-> 1],
                            [tail |-> 2, head |-> 3, weight |-> 1],
                            [tail |-> 3, head |-> 4, weight |-> 1],
                            [tail |-> 4, head |-> 1, weight |-> 1] >> ]

\* a graph with parallel edges, as read from the file
\*   A  B,3  C,3  C,3  C,1
\*   B
\*   C  B,1
ParallelEdges == [ nodes |-> << 1, 2, 3 >>,
                   edges |-> << [tail |-> 1, head |-> 2, weight |-> 3],
                                [tail |-> 1, head |-> 3, weight |-> 3],
                                [tail |-> 1, head |-> 3, weight |-> 3],
                                [tail |-> 1, head |-> 3, weight |-> 1],
                                [tail |-> 3, head |-> 2, weight |-> 1] >> ]

Scenarios == {ScenarioA, ScenarioD, ParallelEdges}

\* the nodes a caller may pass as start
Starts == {nodes[i] : i \in 1..Len(nodes)} \cup {Outsider}

Entries == Weights \cup {Inf}

\* matrices of up to MaxDim rows; a row is as long as the matrix or one short
Rows(n) == UNION { [1..k -> Entries] : k \in {n} \cup (IF n > 0 THEN {n - 1} ELSE {}) }

Matrices == UNION { [1..n -> Rows(n)] : n \in 0..MaxDim }

\* the graph the program holds
Graph == [ nodes |-> nodes, gedges |-> gedges, edge |-> edge,
           outbound |-> outbound, inbound |-> inbound, data |-> data ]

\* the run the program is in
Run == [ graph |-> Graph, length |-> length, visited |-> visited,
        heap |-> heap, cur |-> cur, idx |-> idx, pc |-> pc,
        outcome |-> outcome, simple_ops |-> simple_ops,
        heap_ops |-> heap_ops, iterations |-> iterations,
        pushes |-> pushes, pops |-> pops ]

\* the totals OpsTracker holds
Tracker == [ simple_ops |-> simple_ops, heap_ops |-> heap_ops ]

\* the program's state becomes what the run r holds
Becomes(r) ==
    /\ nodes' = r.graph.nodes
    /\ gedges' = r.graph.gedges
    /\ edge' = r.graph.edge
    /\ outbound' = r.graph.outbound
    /\ inbound' = r.graph.inbound
    /\ data' = r.graph.data
    /\ length' = r.length
    /\ visited' = r.visited
    /\ heap' = r.heap
    /\ cur' = r.cur
    /\ idx' = r.idx
    /\ pc' = r.pc
    /\ outcome' = r.outcome
    /\ simple_ops' = r.simple_ops
    /\ heap_ops' = r.heap_ops
    /\ iterations' = r.iterations
    /\ pushes' = r.pushes
    /\ pops' = r.pops

\* OpsTracker as the class statement leaves it, and no call made
NothingTracked ==
    /\ simple_ops = 0
    /\ heap_ops = NoOps
    /\ calls = << >>
    /\ iterations = 0
    /\ pushes = 0
    /\ pops = 0

\* read_adjacency_list has read the file of the scenario sc
Read(sc) ==
    LET g == BuildEdges([edge |-> << >>, outbound |-> NewNodes.outbound,
                         inbound |-> NewNodes.inbound], sc.edges, 1)
    IN  /\ nodes = sc.nodes
        /\ gedges = [i \in 1..Len(g.edge) |-> i]
        /\ edge = g.edge
        /\ outbound = g.outbound
        /\ inbound = g.inbound
        /\ pc = "idle"

\* the nodes are as Node.__init__ leaves them and nothing has been called
NoCall ==
    /\ data = NewNodes.data
    /\ length = NewNodes.length
    /\ visited = << >>
    /\ heap = << >>
    /\ cur = None
    /\ idx = 0
    /\ variant = "none"
    /\ start = None
    /\ outcome = "none"
    /\ rerun = FALSE
    /\ matrix = << >>
    /\ outMatrix = [called |-> FALSE, value |-> << >>]
    /\ NothingTracked

\* read_adjacency_list after its first loop (the nodes exist, no edge yet), or
\* after it has read the file of a scenario
Init ==
    /\ \/ /\ nodes = NodeSeq
          /\ gedges = << >>
          /\ edge = << >>
          /\ outbound = NewNodes.outbound
          /\ inbound = NewNodes.inbound
          /\ pc = "build"
       \/ \E sc \in Scenarios : Read(sc)
    /\ NoCall

\* Edge(t, h, w) constructed by any caller
NewEdge(t, h, w) ==
    /\ pc = "build"
    /\ Len(edge) < MaxEdges
    /\ LET g == EdgeInit([edge |-> edge, outbound |-> outbound, inbound |-> inbound],
                         t, h, w)
       IN  /\ edge' = g.edge
           /\ outbound' = g.outbound
           /\ inbound' = g.inbound
    /\ UNCHANGED << nodes, gedges, data, length, visited, heap, cur, idx, pc,
                    variant, start, outcome, rerun,
                    matrix, outMatrix, tracking >>

\* read_adjacency_list, one neighbour of the line of node t: the lines are
\* read in the order of the nodes
ReadNeighbor(t, h, w) ==
    /\ pc = "build"
    /\ Len(edge) < MaxEdges
    /\ Len(edge) > 0 => edge[Len(edge)].tail <= t
    /\ LET g == EdgeInit([edge |-> edge, outbound |-> outbound, inbound |-> inbound],
                         t, h, w)
       IN  /\ edge' = g.edge
           /\ outbound' = g.outbound
           /\ inbound' = g.inbound
    /\ gedges' = Append(gedges, Len(edge) + 1)
    /\ UNCHANGED << nodes, data, length, visited, heap, cur, idx, pc,
                    variant, start, outcome, rerun,
                    matrix, outMatrix, tracking >>

\* read_adjacency_list returns Graph(nodes_list, edges)
ReturnGraph ==
    /\ pc = "build"
    /\ pc' = "idle"
    /\ UNCHANGED << structure, length, visited, heap, cur, idx, variant, start,
                    outcome, rerun,
                    matrix, outMatrix, tracking >>

\* matrix_to_graph(matrix)
MatrixToGraph ==
    /\ pc = "matrix"
    /\ IF IsSquare(matrix)
       THEN LET n == Len(matrix)
                g == BuildEdges([edge |-> << >>, outbound |-> NewNodes.outbound,
                                 inbound |-> NewNodes.inbound],
                                MatrixCells(matrix, 0), 1)
            IN  /\ nodes' = [i \in 1..n |-> i]
                /\ edge' = g.edge
                /\ gedges' = [i \in 1..Len(g.edge) |-> i]
                /\ outbound' = g.outbound
                /\ inbound' = g.inbound
                /\ pc' = "idle"
                /\ outcome' = "none"
       ELSE /\ pc' = "failed"
            /\ outcome' = "ValueError"
            /\ UNCHANGED << nodes, edge, gedges, outbound, inbound >>
    /\ UNCHANGED << data, length, visited, heap, cur, idx, variant, start,
                    rerun, matrix, outMatrix, tracking >>

\* graph.to_matrix()
ToMatrix ==
    /\ pc = "idle"
    /\ outMatrix' = [called |-> TRUE, value |-> to_matrix]
    /\ UNCHANGED << structure, length, visited, heap, cur, idx, pc, variant,
                    start, outcome, rerun, matrix, tracking >>

\* the node lengths a call finds: the graph's nodes as the last run left them;
\* a start node from outside the graph is a node the caller has just made
AtCall(len) == [len EXCEPT ![Outsider] = Inf]

\* simple_shortest_path(graph, s) is called, OpsTracker holding the totals
\* t after the calls of log
SimpleCalled(s, t, log) ==
    /\ pc = "idle"
    /\ variant' = "simple"
    /\ start' = s
    /\ Becomes(SimpleCallStep(Graph, AtCall(length), s, t))
    /\ calls' = Append(log, [op |-> "simple_shortest_path", arg |-> s,
                            raised |-> FALSE])
    /\ rerun' = (outcome = "returned")
    /\ UNCHANGED << matrix, outMatrix >>

\* a measurement of simple_shortest_path: OpsTracker.reset(), then the call
SimpleCall(s) == SimpleCalled(s, reset, << >>)

SimpleIter ==
    /\ pc = "simple_loop"
    /\ Becomes(SimpleIterStep(Run))
    /\ UNCHANGED << variant, start, rerun, matrix, outMatrix, calls >>

\* heap_shortest_path(graph, s) is called, OpsTracker holding the totals t
\* after the calls of log
HeapCalled(s, t, log) ==
    /\ pc = "idle"
    /\ variant' = "heap"
    /\ start' = s
    /\ Becomes(HeapCallStep(Graph, AtCall(length), s, t))
    /\ calls' = Append(log, [op |-> "heap_shortest_path", arg |-> s,
                            raised |-> FALSE])
    /\ rerun' = (outcome = "returned")
    /\ UNCHANGED << matrix, outMatrix >>

\* a measurement of heap_shortest_path: OpsTracker.reset(), then the call
HeapCall(s) == HeapCalled(s, reset, << >>)

HeapPop ==
    /\ pc = "heap_loop"
    /\ Becomes(HeapPopStep(Run))
    /\ UNCHANGED << variant, start, rerun, matrix, outMatrix, calls >>

HeapScan ==
    /\ pc = "heap_scan"
    /\ Becomes(HeapScanStep(Run))
    /\ UNCHANGED << variant, start, rerun, matrix, outMatrix, calls >>

\* OpsTracker.reset()
Reset ==
    /\ pc = "idle"
    /\ simple_ops' = reset.simple_ops
    /\ heap_ops' = reset.heap_ops
    /\ calls' = << >>
    /\ UNCHANGED << structure, length, visited, heap, cur, idx, pc, variant,
                    start, outcome, rerun, matrix, outMatrix, iterations,
                    pushes, pops >>

\* OpsTracker.add_heap_op(n), called from outside the algorithms
AddHeapOp(n) ==
    /\ pc = "idle"
    /\ Len(calls) < MaxCalls
    /\ LET a == add_heap_op(heap_ops, n)
       IN  /\ heap_ops' = a.heap_ops
           /\ calls' = Append(calls, [op |-> "add_heap_op", arg |-> n,
                                      raised |-> a.raised])
    /\ UNCHANGED << structure, length, visited, heap, cur, idx, pc, variant,
                    start, outcome, rerun, matrix, outMatrix, simple_ops,
                    iterations, pushes, pops >>

\* simple_shortest_path(graph, s), called with the totals as they are
SimpleCallNoReset(s) ==
    /\ Len(calls) < MaxCalls
    /\ SimpleCalled(s, Tracker, calls)

\* heap_shortest_path(graph, s), called with the totals as they are
HeapCallNoReset(s) ==
    /\ Len(calls) < MaxCalls
    /\ HeapCalled(s, Tracker, calls)

Algorithms ==
    \/ \E s \in Starts : SimpleCall(s)
    \/ SimpleIter
    \/ \E s \in Starts : HeapCall(s)
    \/ HeapPop
    \/ HeapScan

Next ==
    \/ \E t \in FileNodes, h \in FileNodes, w \in Weights : ReadNeighbor(t, h, w)
    \/ ReturnGraph
    \/ Algorithms

Spec == Init /\ [][Next]_vars

\* any sequence of Edge constructions
NextEdges == \E t \in FileNodes, h \in FileNodes, w \in Weights : NewEdge(t, h, w)

SpecEdges == Init /\ [][NextEdges]_vars

\* a matrix is turned into a graph, the algorithms run on it, and the graph is
\* turned back into a matrix
InitMatrix ==
    /\ matrix \in Matrices
    /\ nodes = << >>
    /\ gedges = << >>
    /\ edge = << >>
    /\ outbound = NewNodes.outbound
    /\ inbound = NewNodes.inbound
    /\ data = NewNodes.data
    /\ length = NewNodes.length
    /\ visited = << >>
    /\ heap = << >>
    /\ cur = None
    /\ idx = 0
    /\ pc = "matrix"
    /\ variant = "none"
    /\ start = None
    /\ outcome = "none"
    /\ rerun = FALSE
    /\ outMatrix = [called |-> FALSE, value |-> << >>]
    /\ NothingTracked

NextMatrix ==
    \/ MatrixToGraph
    \/ ToMatrix
    \/ Algorithms

SpecMatrix == InitMatrix /\ [][NextMatrix]_vars

\* the graph of a scenario has been read; the algorithms and OpsTracker are
\* called in any order
InitOps ==
    /\ \E sc \in Scenarios : Read(sc)
    /\ NoCall

NextOps ==
    \/ Reset
    \/ \E n \in HeapSizes : AddHeapOp(n)
    \/ \E s \in Starts : SimpleCallNoReset(s)
    \/ SimpleIter
    \/ \E s \in Starts : HeapCallNoReset(s)
    \/ HeapPop
    \/ HeapScan

SpecOps == InitOps /\ [][NextOps]_vars

---------------------------------------------------------------------------
(* What the claims speak of *)

GraphNodes == {nodes[i] : i \in 1..Len(nodes)}

\* a call has returned and nothing has happened since
Finished == pc = "idle" /\ outcome = "returned"

\* the least total weight of a directed path of at most `rounds` more edges
\* to each node, from the weights d already found: every edge is tried in
\* every round (Bellman-Ford)
RECURSIVE PathWeights(_, _, _)
PathWeights(d, rounds, i) ==
    IF rounds = 0 THEN d
    ELSE IF i > Len(edge) THEN PathWeights(d, rounds - 1, 1)
    ELSE LET e   == edge[i]
             via == Plus(d[e.tail], e.weight)
         IN  PathWeights(IF via < d[e.head] THEN [d EXCEPT ![e.head] = via] ELSE d,
                         rounds, i + 1)

\* the least total weight of a directed path from s to each node, Inf for none
\* (a lightest path repeats no node, and the edges join nodes of the graph)
Dist(s) ==
    PathWeights([v \in Objects |-> IF v = s THEN 0 ELSE Inf], Len(nodes), 1)

\* what the other algorithm leaves when called on the same graph and start
OtherRun ==
    IF variant = "simple"
    THEN Finish(HeapCallStep(Graph, AtCall(length), start, reset))
    ELSE Finish(SimpleCallStep(Graph, AtCall(length), start, reset))

\* what the same call leaves on a freshly built copy of the graph, where every
\* length is still math.inf
FreshRun ==
    IF variant = "simple"
    THEN Finish(SimpleCallStep(Graph, NewNodes.length, start, reset))
    ELSE Finish(HeapCallStep(Graph, NewNodes.length, start, reset))

\* the number of times x occurs in seq
Occurrences(seq, x) == Cardinality({i \in 1..Len(seq) : seq[i] = x})

\* no node is twice in seq
NoDuplicates(seq) == \A i, j \in 1..Len(seq) : seq[i] = seq[j] => i = j

\* a call is in its while loop
Running == pc \in {"simple_loop", "heap_loop", "heap_scan"}

\* the sum of two totals of heap operations
RealSum(a, b) ==
    Real([units |-> a.units + b.units, log2of |-> a.log2of * b.log2of])

\* the real number log2(n) + 1, for n > 0
Log2Plus1(n) == Real([units |-> 1, log2of |-> n])

\* what the call c counts when it is the only call made after reset(), on a
\* freshly built copy of the graph
Alone(c) ==
    IF c.op = "simple_shortest_path"
    THEN Finish(SimpleCallStep(Graph, NewNodes.length, c.arg, reset))
    ELSE Finish(HeapCallStep(Graph, NewNodes.length, c.arg, reset))

\* the cost of the first k calls of the log that are calls of
\* simple_shortest_path
RECURSIVE SimpleCost(_, _)
SimpleCost(log, k) ==
    IF k = 0 THEN 0
    ELSE SimpleCost(log, k - 1)
           + (IF log[k].op = "simple_shortest_path"
              THEN Alone(log[k]).simple_ops ELSE 0)

\* the cost of the first k calls of the log that are calls of
\* heap_shortest_path or of add_heap_op with a heap size above 0
RECURSIVE HeapCost(_, _)
HeapCost(log, k) ==
    IF k = 0 THEN NoOps
    ELSE RealSum(HeapCost(log, k - 1),
                 CASE log[k].op = "heap_shortest_path" -> Alone(log[k]).heap_ops
                   [] log[k].op = "add_heap_op" /\ log[k].arg > 0
                                                  -> Log2Plus1(log[k].arg)
                   [] OTHER -> NoOps)

\* the step is a call of add_heap_op from outside the algorithms
AddHeapOpCalled ==
    /\ Len(calls') = Len(calls) + 1
    /\ calls'[Len(calls')].op = "add_heap_op"

---------------------------------------------------------------------------
(* The claims *)

\* C1: on every graph with non-negative weights whose edges join nodes of the
\* graph, and for every start node of the graph, the simple and the heap
\* algorithm leave the same length on every node of the graph.
C1_SameLengths ==
    (Finished /\ start \in GraphNodes)
    => \A n \in GraphNodes : length[n] = OtherRun.length[n]

\* C2: after simple_shortest_path returns, every node of the graph holds the
\* least total weight of a directed path from start to it (0 for start, Inf
\* when there is none); scenario A gives 0, 1, 2 and scenario D 0, 1, 2, 3.
C2_SimpleShortest ==
    (Finished /\ variant = "simple" /\ start \in GraphNodes)
    => /\ LET d == Dist(start) IN \A n \in GraphNodes : length[n] = d[n]
       /\ (edge = ScenarioA.edges /\ start = 1)
            => << length[1], length[2], length[3] >> = << 0, 1, 2 >>
       /\ (edge = ScenarioD.edges /\ start = 1)
            => << length[1], length[2], length[3], length[4] >> = << 0, 1, 2, 3 >>

C2_Witness ==
    /\ Finished /\ variant = "simple" /\ start = 1
    /\ edge = ScenarioA.edges
    /\ << length[1], length[2], length[3] >> = << 0, 1, 2 >>

\* C3: after a run of either algorithm, every edge (u, v, w) of the graph whose
\* tail u can be reached from start has length(v) <= length(u) + w.
C3_EdgesRelaxed ==
    (Finished /\ start \in GraphNodes)
    => LET d == Dist(start)
       IN  \A i \in 1..Len(gedges) :
              LET e == edge[gedges[i]]
              IN  d[e.tail] # Inf
                    => length[e.head] <= Plus(length[e.tail], e.weight)

\* C4: after a run of either algorithm, every node of the graph that no
\* directed path from start leads to holds Inf, whatever it held before.
C4_UnreachableInf ==
    Finished => LET d == Dist(start)
                IN  \A n \in GraphNodes : d[n] = Inf => length[n] = Inf

C4_Witness ==
    /\ Finished /\ rerun /\ variant = "heap" /\ start \in GraphNodes
    /\ \E n \in GraphNodes : Dist(start)[n] = Inf /\ length[n] = Inf
    /\ \E n \in GraphNodes : n # start /\ length[n] # Inf

\* C5: from the call on and after the run, the start node holds exactly 0, also
\* when it has inbound edges, a self-loop, or lies on a cycle: no relaxation
\* overwrites it.
C5_StartZero ==
    outcome \in {"running", "returned"} => length[start] = 0

C5_Witness ==
    /\ Finished /\ variant = "heap" /\ length[start] = 0
    /\ \E i \in 1..Len(edge) : edge[i].tail = start /\ edge[i].head = start
    /\ \E i \in 1..Len(edge) :
          edge[i].tail # start /\ edge[i].head = start /\ length[edge[i].tail] # Inf

\* C6: a call whose start node is not a node of the graph fails with an error:
\* it never returns normally.
C6_FailsFast == Finished => start \in GraphNodes

\* C6, as amended: a call whose start node is not a node of the graph raises
\* no error: it returns normally, with start at 0 and with Inf on every node of
\* the graph that no directed path from start leads to.
C6_ReturnsNormally ==
    (outcome # "none" /\ start \notin GraphNodes)
    => /\ outcome \in {"running", "returned"}
       /\ Finished => /\ length[start] = 0
                       /\ LET d == Dist(start)
                          IN  \A n \in GraphNodes : d[n] = Inf => length[n] = Inf

C6_Witness ==
    /\ Finished /\ start \notin GraphNodes /\ rerun
    /\ Len(gedges) > 0
    /\ length[start] = 0
    /\ \A n \in GraphNodes : length[n] = Inf

\* C7: the lengths a run leaves are those the same call leaves on a freshly
\* built graph, whatever lengths the nodes held when it was called (a second
\* run of an algorithm, heap_shortest_path right after simple_shortest_path).
C7_AsOnFreshGraph ==
    Finished => LET f == FreshRun
                IN  \A n \in GraphNodes : length[n] = f.length[n]

C7_Witness ==
    /\ Finished /\ rerun /\ variant = "heap" /\ start = nodes[1]
    /\ \E n \in GraphNodes : n # start /\ length[n] # Inf
    /\ \E n \in GraphNodes : length[n] = Inf
    /\ \A n \in GraphNodes : length[n] = FreshRun.length[n]

\* C8: once the graph is built, no step of either algorithm changes graph.nodes,
\* graph.edges, a node's outbound or inbound list or data, or an edge's tail,
\* head or weight: only lengths change.
C8_OnlyLengthsChange == [][pc # "build" => UNCHANGED structure]_vars

C8_Witness ==
    /\ Finished /\ variant = "heap" /\ Len(gedges) = MaxEdges
    /\ Len(visited) > 1
    /\ \E n \in GraphNodes : n # start /\ length[n] # Inf

\* C9: after any sequence of Edge constructions, every edge is exactly once in
\* its tail's outbound list and exactly once in its head's inbound list, both
\* lists are in construction order, every edge of a node's outbound list has
\* that node as its tail and every edge of its inbound list has it as its head.
C9_EdgesRegistered ==
    /\ \A e \in 1..Len(edge) :
          /\ Occurrences(outbound[edge[e].tail], e) = 1
          /\ Occurrences(inbound[edge[e].head], e) = 1
    /\ \A n \in Objects :
          /\ \A i \in 1..Len(outbound[n]) :
                /\ outbound[n][i] \in 1..Len(edge)
                /\ edge[outbound[n][i]].tail = n
                /\ \A j \in 1..(i - 1) : outbound[n][j] < outbound[n][i]
          /\ \A i \in 1..Len(inbound[n]) :
                /\ inbound[n][i] \in 1..Len(edge)
                /\ edge[inbound[n][i]].head = n
                /\ \A j \in 1..(i - 1) : inbound[n][j] < inbound[n][i]

C9_Witness ==
    /\ Len(edge) = MaxEdges
    /\ \E n \in Objects :
          /\ Len(outbound[n]) >= 2
          /\ \E i \in 1..Len(outbound[n]) : InById(outbound[n][i], inbound[n])

\* C10: for every square matrix M, matrix_to_graph(M).to_matrix() is M,
\* whatever lengths the nodes hold.
C10_RoundTrip ==
    outMatrix.called => outMatrix.value = matrix

\* C11: the two totals are independent.  simple_ops is the sum of the costs
\* of the calls of simple_shortest_path made since reset(), each as if made
\* alone, and heap_ops that of the heap operations: a run of one variant
\* leaves the total of the other as it was from its first step to its last,
\* and after reset() both are 0.
C11_TotalsIndependent ==
    /\ pc = "idle" => /\ simple_ops = SimpleCost(calls, Len(calls))
                      /\ heap_ops = HeapCost(calls, Len(calls))
    /\ (Running /\ variant = "simple") => heap_ops = HeapCost(calls, Len(calls))
    /\ (Running /\ variant = "heap")
          => simple_ops = SimpleCost(calls, Len(calls))

C11_Witness ==
    /\ Finished
    /\ Len(gedges) > 0
    /\ calls = << [op |-> "simple_shortest_path", arg |-> nodes[1],
                   raised |-> FALSE],
                  [op |-> "heap_shortest_path", arg |-> nodes[1],
                   raised |-> FALSE] >>
    /\ simple_ops > 0
    /\ heap_ops.log2of > 1

\* C12: every call add_heap_op(n) with n >= 0 returns and adds
\* log2(max(n, 1)) + 1 to the heap total: add_heap_op(0) adds exactly 1.
C12_ZeroAsOne ==
    [][AddHeapOpCalled
         => LET c == calls'[Len(calls')]
            IN  /\ ~c.raised
                /\ heap_ops' = RealSum(heap_ops, Log2Plus1(max(c.arg, 1)))]_vars

\* C12, as amended: add_heap_op(n) adds log2(n) + 1 to the heap total for
\* n >= 1; add_heap_op(0) raises ValueError and adds nothing.  No run of
\* heap_shortest_path makes it raise: the sizes it passes are above 0.
C12_ZeroRaises ==
    /\ [](variant = "heap" => outcome # "ValueError")
    /\ [][AddHeapOpCalled
            => LET c == calls'[Len(calls')]
               IN  IF c.arg >= 1
                   THEN /\ ~c.raised
                        /\ heap_ops' = RealSum(heap_ops, Log2Plus1(c.arg))
                   ELSE /\ c.raised
                        /\ heap_ops' = heap_ops]_vars

C12_Witness ==
    /\ Len(calls) = 2
    /\ calls[1] = [op |-> "heap_shortest_path", arg |-> nodes[1],
                   raised |-> FALSE]
    /\ calls[2] = [op |-> "add_heap_op", arg |-> 0, raised |-> TRUE]
    /\ pushes > 0
    /\ heap_ops = Alone(calls[1]).heap_ops

\* C13: in heap_shortest_path, every scan of an outbound edge that lowers the
\* length of the head pushes the head onto the queue in the same step,
\* whatever the lengths of the visited nodes are.
C13_RelaxedIsPushed ==
    [][\A n \in Objects :
          (pc = "heap_scan" /\ length'[n] < length[n])
            => /\ Len(heap') = Len(heap) + 1
               /\ pushes' = pushes + 1
               /\ InById(n, heap')]_vars

\* C14: in heap_shortest_path every pop returns the minimum: the length of
\* the popped node is at most the length of every entry left in the queue.
C14_PopReturnsMin ==
    [][(pc = "heap_loop" /\ Len(heap) > 0)
         => \A i \in 1..Len(heap') : length[cur'] <= length[heap'[i]]]_vars

\* C15: lazy deletion.  A popped node that is already in visited is
\* discarded: the step scans no edge, pushes nothing and changes no length.
\* So no node is twice in visited, and the edges scanned are those of the
\* node visited last.
C15_LazyDeletion ==
    /\ [](variant = "heap"
            => /\ NoDuplicates(visited)
               /\ pc = "heap_scan" => cur = visited[Len(visited)])
    /\ [][(pc = "heap_loop" /\ Len(heap) > 0 /\ InById(cur', visited))
            => /\ UNCHANGED << length, visited, idx, pushes >>
               /\ pc' = "heap_loop"
               /\ Len(heap') = Len(heap) - 1]_vars

C15_Witness ==
    /\ variant = "heap" /\ pc = "heap_loop"
    /\ pops > Len(visited)
    /\ Len(visited) = Cardinality(GraphNodes)
    /\ cur # visited[Len(visited)]

\* C16: in heap_shortest_path (all weights are non-negative) the length of a
\* node that has been appended to visited is final: no later step of the
\* same run changes it.
C16_VisitedFinal ==
    [][(variant = "heap" /\ Running)
         => \A i \in 1..Len(visited) :
               length'[visited[i]] = length[visited[i]]]_vars

\* C17: both algorithms run to completion.  Every iteration of a while loop
\* is counted, and the counts are bounded: simple_shortest_path has appended
\* a new node to visited in every iteration but the last and makes at most
\* |V| iterations; heap_shortest_path makes at most |E| pushes after the
\* start node and at most 1 + |E| pops, one for each entry queued.
C17_LoopsBounded ==
    (start \in GraphNodes /\ outcome \in {"running", "returned"})
    => /\ variant = "simple"
            => /\ iterations <= Len(nodes)
               /\ NoDuplicates(visited)
               /\ Len(visited) = IF Finished THEN iterations ELSE iterations + 1
       /\ variant = "heap"
            => /\ pushes <= Len(gedges)
               /\ pops + Len(heap) = 1 + pushes
               /\ iterations = pops

C17_Witness ==
    /\ Finished /\ variant = "heap" /\ start \in GraphNodes
    /\ Len(gedges) = MaxEdges
    /\ pops = 1 + Len(gedges)
    /\ pops > Len(visited)
    /\ Len(visited) = Cardinality(GraphNodes)

\* C18: get_best_edge returns, of the outbound edges of the visited nodes
\* whose head is not in visited (by identity), one of least tail.length +
\* weight, the first of them in scan order, and that criterion; it returns
\* (None, Inf) exactly when no such edge has a finite criterion.
C18_BestEdge ==
    pc = "simple_loop"
    => LET scan    == ScanOrder(Graph, visited, 1)
           b       == get_best_edge(Graph, length, visited)
           crit(k) == Plus(length[edge[scan[k]].tail], edge[scan[k]].weight)
           Cand    == {k \in 1..Len(scan) :
                          /\ ~InById(edge[scan[k]].head, visited)
                          /\ crit(k) < Inf}
       IN  IF Cand = {}
           THEN b.edge = None /\ b.criterion = Inf
           ELSE \E k \in Cand :
                   /\ b.edge = scan[k]
                   /\ b.criterion = crit(k)
                   /\ \A j \in Cand : /\ crit(k) <= crit(j)
                                      /\ j < k => crit(k) < crit(j)

C18_Witness ==
    /\ pc = "simple_loop"
    /\ LET scan == ScanOrder(Graph, visited, 1)
           b    == get_best_edge(Graph, length, visited)
       IN  \E j, k \in 1..Len(scan) :
              /\ j < k
              /\ b.edge = scan[j]
              /\ edge[scan[j]].head # edge[scan[k]].head
              /\ ~InById(edge[scan[k]].head, visited)
              /\ Plus(length[edge[scan[k]].tail], edge[scan[k]].weight)
                   = b.criterion
              /\ \E i \in 1..(j - 1) : InById(edge[scan[i]].head, visited)

====
